---- MODULE Spec2Model ----
(***************************************************************************)
(* The asynchronous job queue of src/api/async_jobs.py (AsyncJobManager),  *)
(* together with the parts of TranslationService, the prompting schemas    *)
(* and OllamaClient that decide the outcome of a job.                      *)
(*                                                                         *)
(* Python values are modelled as follows.  An Optional value is a sequence *)
(* of length at most one: <<>> is None and <<v>> is the value v.  A dict   *)
(* is a function from key strings, read with Get (dict.get).  A datetime   *)
(* is a reading of the integer clock `now`.                                *)
(***************************************************************************)
EXTENDS Integers, Sequences, FiniteSets, TLC

\* ------------------------------------------------------------------ bounds
MaxJobs == 2
MaxTime == 1

JobIds == 1..(MaxJobs + 1)
Times == 0..MaxTime

\* ------------------------------------------------------- Python primitives
None == <<>>
Some(v) == <<v>>
IsNone(o) == o = <<>>
Val(o) == o[1]

Get(d, k, default) == IF k \in DOMAIN d THEN d[k] ELSE default

\* `x or d` for an Optional[str] argument: None and "" are falsy
OrStr(o, d) == IF IsNone(o) \/ o = Some("") THEN d ELSE Val(o)
\* `x or d` for an Optional[int] argument: None and 0 are falsy
OrInt(o, d) == IF IsNone(o) \/ o = Some(0) THEN d ELSE Val(o)

Max2(a, b) == IF a >= b THEN a ELSE b
Min2(a, b) == IF a <= b THEN a ELSE b

\* -------------------------------------------------------------- JobStatus
PENDING == "pending"
PROCESSING == "processing"
COMPLETED == "completed"
FAILED == "failed"
JobStatus == {PENDING, PROCESSING, COMPLETED, FAILED}
Terminal == {COMPLETED, FAILED}

\* ------------------------------------------------ the model backend's replies
\* What one call of the model backend can hand back to call_ollama: nothing
\* (unreachable, HTTP error, timeout, any exception raised by the request),
\* or a response text.  RawArray, JSON that is no object, is understood by
\* the parsing operators but is not among the replies the model draws.
RawHello == "{\"translated_text\": \"Hello\"}"
RawThink == "<think>t</think>{\"translated_text\": \"Hello\"}"
RawArray == "[1]"
RawGarbage == "garbage"
RawEmpty == ""
Responses == {None, Some(RawEmpty), Some(RawGarbage), Some(RawHello), Some(RawThink)}
\* the replies to the two first-stage calls of a translation: in the model
\* the backend answers them (a missing answer only changes the
\* initial_translation entry of the result, from "Hello" to the input text)
Stage1Responses == {Some(RawHello)}

\* ------------------------------------------------------------ OllamaClient
\* mutant: every call probes the backend again
check_connection_NoCache(cache, up) == <<up, Some(up)>>

\* check_connection: the cached answer if there is one, else the probe's
\* answer `up`, which is then cached.  Returns <<answer, new cache>>.
check_connection(cache, up) ==
    IF ~IsNone(cache) THEN <<Val(cache), cache>> ELSE <<up, Some(up)>>

\* call_ollama: None without a connection, else the backend's reply
call_ollama(connected, reply) == IF ~connected THEN None ELSE reply

\* clean_thinking on the reply texts of the model: drops <think> blocks
clean_thinking(text) == IF text = RawThink THEN RawHello ELSE text

\* json.loads on the reply texts of the model: <<value kind, value>>
json_loads(text) ==
    CASE text = RawHello -> <<"dict", [translated_text |-> "Hello"]>>
      [] text = RawArray -> <<"list", <<1>>>>
      [] OTHER -> <<"JSONDecodeError", <<>>>>

\* whether repair_json turns the text into JSON; none of the reply texts of
\* the model is repairable (and json_repair may not be installed at all)
repair_json_ok(text) == FALSE

\* _safe_json_parse: <<kind of the parsed value, parsed value, success>>
safe_json_parse(text) ==
    IF text = "" THEN <<"dict", <<>>, FALSE>>
    ELSE IF json_loads(text)[1] # "JSONDecodeError" \/ repair_json_ok(text)
         THEN <<json_loads(text)[1], json_loads(text)[2], TRUE>>
         ELSE <<"dict", <<>>, FALSE>>

ParseErrorMsg == "Failed to parse JSON response"
AttributeErrorMsg == "'list' object has no attribute 'get'"

\* ---------------------------------------------------------------- schemas
RegisteredSchemas == {"translate", "simple", "detailed", "questions", "linguistic"}

\* mutant: the default schema is "detailed"
get_or_default_Detailed(name) == IF name \in RegisteredSchemas THEN name ELSE "detailed"

\* PromptingSchemaRegistry.get_or_default: the name of the schema used
get_or_default(name) == IF name \in RegisteredSchemas THEN name ELSE "translate"

\* parse_response of every schema: a dict, or the exception raised by
\* parsed.get when the JSON value is no object.  <<"dict", d>> or <<"raise", msg>>
parse_response(schema, response) ==
    LET p == safe_json_parse(response) IN
    IF ~p[3] THEN
        CASE schema \in {"translate", "simple", "detailed"} ->
                <<"dict", [translated_text |-> response, raw_response |-> response,
                           error |-> ParseErrorMsg]>>
          [] schema = "questions" ->
                <<"dict", [response_text |-> response, error |-> ParseErrorMsg]>>
          [] OTHER ->
                <<"dict", [error |-> ParseErrorMsg, raw_response |-> response]>>
    ELSE IF p[1] # "dict" THEN <<"raise", AttributeErrorMsg>>
    ELSE
        CASE schema \in {"translate", "simple", "detailed"} ->
                <<"dict", [translated_text |-> Get(p[2], "translated_text", ""),
                           raw_response |-> response]>>
          [] schema = "questions" ->
                <<"dict", [questions_list |-> Get(p[2], "questions_list", <<>>)]>>
          [] OTHER ->
                <<"dict", [english_translation |-> Get(p[2], "english_translation", ""),
                           raw_response |-> response]>>

\* ----------------------------------------------------- TranslationService
NotAvailableMsg == "Qwen/Ollama not available"
NoResponseMsg == "No response from Ollama"

\* mutant: every reply counts as no response
Falsy_Always(reply) == TRUE

\* mutant: only None counts as no response
Falsy_NoneOnly(reply) == IsNone(reply)

\* `not response` for an Optional[str]: None and "" are falsy
Falsy(reply) == IsNone(reply) \/ reply = Some("")

\* _extract_translated_text: the translated_text of a JSON object, else the
\* text itself (json.loads or parsed.get raised)
extract_translated_text(response_text) ==
    IF json_loads(response_text)[1] = "dict"
    THEN Get(json_loads(response_text)[2], "translated_text", "")
    ELSE response_text

\* one attempt of _generate_initial_translation: the candidate it extracts
stage1_candidate(connected, reply) ==
    LET raw == call_ollama(connected, reply)
        clean == IF Falsy(raw) THEN "" ELSE clean_thinking(Val(raw)) IN
    extract_translated_text(clean)

\* _generate_initial_translation: the first non-empty candidate of the two
\* attempts (replies r1, r2), else the input text
generate_initial_translation(text, connected, r1, r2) ==
    IF stage1_candidate(connected, r1) # "" THEN stage1_candidate(connected, r1)
    ELSE IF stage1_candidate(connected, r2) # "" THEN stage1_candidate(connected, r2)
    ELSE text

\* translate_with_qwen; r1, r2 are the replies to the two first-stage calls
\* and `reply` the reply to the final call
translate_with_qwen(text, schema_name, connected, r1, r2, reply) ==
    IF ~connected
    THEN [success |-> FALSE, model |-> "qwen", error |-> NotAvailableMsg]
    ELSE LET schema == get_or_default(schema_name)
             final == call_ollama(connected, reply) IN
         IF Falsy(final)
         THEN [success |-> FALSE, model |-> "qwen", error |-> NoResponseMsg]
         ELSE LET parsed == parse_response(schema, clean_thinking(Val(final))) IN
              IF parsed[1] = "raise"
              THEN [success |-> FALSE, model |-> "qwen", error |-> parsed[2]]
              ELSE IF schema = "detailed"
              THEN [k \in DOMAIN parsed[2] \cup {"success", "model"} |->
                       CASE k = "success" -> TRUE
                         [] k = "model" -> "qwen"
                         [] OTHER -> parsed[2][k]]
              ELSE [k \in DOMAIN parsed[2] \cup
                            {"initial_translation", "success", "model"} |->
                       CASE k = "success" -> TRUE
                         [] k = "model" -> "qwen"
                         [] k = "initial_translation" ->
                                generate_initial_translation(text, connected, r1, r2)
                         [] OTHER -> parsed[2][k]]

\* translate: wraps translate_with_qwen's dict
translate(text, schema_name, connected, r1, r2, reply) ==
    [input_text |-> text, schema_used |-> schema_name, model |-> "qwen",
     translation |-> translate_with_qwen(text, schema_name, connected, r1, r2, reply)]

\* the question count generate_questions works with
QMin == 1
QMax == 20
clamp_question_count(question_count) == Max2(QMin, Min2(question_count, QMax))

generate_questions(text, question_count, connected, reply) ==
    IF ~connected
    THEN [success |-> FALSE, error |-> NotAvailableMsg]
    ELSE LET response_text == call_ollama(connected, reply) IN
         IF Falsy(response_text)
         THEN [success |-> FALSE, error |-> NoResponseMsg]
         ELSE LET parsed == parse_response("questions", clean_thinking(Val(response_text))) IN
              IF parsed[1] = "raise"
              THEN [success |-> FALSE, error |-> parsed[2]]
              ELSE [k \in DOMAIN parsed[2] \cup {"success", "question_count"} |->
                       CASE k = "success" -> TRUE
                         [] k = "question_count" -> clamp_question_count(question_count)
                         [] OTHER -> parsed[2][k]]

analyze_linguistic(full_text, selected_text, connected, reply) ==
    IF ~connected
    THEN [success |-> FALSE, error |-> NotAvailableMsg]
    ELSE LET response_text == call_ollama(connected, reply) IN
         IF Falsy(response_text)
         THEN [success |-> FALSE, error |-> NoResponseMsg]
         ELSE LET parsed == parse_response("linguistic", clean_thinking(Val(response_text))) IN
              IF parsed[1] = "raise"
              THEN [success |-> FALSE, error |-> parsed[2]]
              ELSE IF "error" \in DOMAIN parsed[2]
              THEN [success |-> FALSE, error |-> parsed[2].error,
                    raw_response |-> parsed[2].raw_response]
              ELSE [k \in DOMAIN parsed[2] \cup {"success"} |->
                       IF k = "success" THEN TRUE ELSE parsed[2][k]]

\* ------------------------------------------------------------- JobRecord
\* the arguments of the submit_job calls of the model, as the routes of
\* routes_async.py make them, and one call with a job_type no route uses
Requests ==
    { [text |-> Some("nihao"), job_type |-> "translation", schema_name |-> Some("translate"),
       question_count |-> None, full_text |-> None, selected_text |-> None],
      [text |-> Some("nihao"), job_type |-> "questions", schema_name |-> None,
       question_count |-> Some(999), full_text |-> None, selected_text |-> None],
      [text |-> None, job_type |-> "linguistic", schema_name |-> None,
       question_count |-> None, full_text |-> Some("full"), selected_text |-> Some("sel")],
      [text |-> Some("nihao"), job_type |-> "summary", schema_name |-> None,
       question_count |-> None, full_text |-> None, selected_text |-> None] }

\* submit_job calls over the values an argument can take: absent, empty or
\* 0, and ordinary values; question counts on both sides of the range of
\* generate_questions
QuestionCounts == {None, Some(-3), Some(0), Some(1), Some(7), Some(20), Some(21), Some(999)}
SubmitRequests ==
    { [text |-> t, job_type |-> "translation", schema_name |-> sn,
       question_count |-> None, full_text |-> None, selected_text |-> None] :
          t \in {None, Some(""), Some("nihao")},
          sn \in {None, Some(""), Some("translate"), Some("nosuch")} }
    \cup
    { [text |-> Some("nihao"), job_type |-> "questions", schema_name |-> None,
       question_count |-> qc, full_text |-> None, selected_text |-> None] :
          qc \in QuestionCounts }
    \cup
    { [text |-> None, job_type |-> "linguistic", schema_name |-> None,
       question_count |-> None, full_text |-> ft, selected_text |-> Some("sel")] :
          ft \in {None, Some(""), Some("full")} }

DefaultSchemaName == "translate"
DefaultQuestionCount == 5

\* JobRecord(...) as submit_job builds it, created at clock reading t
NewJob(job_id, req, t) ==
    [job_id |-> job_id,
     status |-> PENDING,
     job_type |-> req.job_type,
     text |-> OrStr(req.text, ""),
     schema_name |-> OrStr(req.schema_name, DefaultSchemaName),
     question_count |-> OrInt(req.question_count, DefaultQuestionCount),
     full_text |-> req.full_text,
     selected_text |-> req.selected_text,
     created_at |-> t,
     started_at |-> None,
     completed_at |-> None,
     result |-> None,
     error |-> None,
     progress |-> "Queued for processing"]

\* mutant: the marking stamps created_at as well
MarkProcessing_Restamps(job, t) ==
    [job EXCEPT !.status = PROCESSING,
                !.created_at = t + 1,
                !.started_at = Some(t),
                !.progress = "Processing in progress..."]

\* mutant: the status is not set when the job is marked
MarkProcessing_KeepsPending(job, t) ==
    [job EXCEPT !.started_at = Some(t),
                !.progress = "Processing in progress..."]

\* _execute_job, "Mark as processing"
MarkProcessing(job, t) ==
    [job EXCEPT !.status = PROCESSING,
                !.started_at = Some(t),
                !.progress = "Processing in progress..."]

\* mutant: the completion time is not stamped on success
MarkCompleted_NoTimestamp(job, result, t) ==
    [job EXCEPT !.result = Some(result),
                !.status = COMPLETED,
                !.progress = "Processing completed"]

\* _execute_job, the end of the try block, after job.result was assigned
MarkCompleted(job, result, t) ==
    [job EXCEPT !.result = Some(result),
                !.status = COMPLETED,
                !.progress = "Processing completed",
                !.completed_at = Some(t)]

\* mutant: the progress note of a failure leaves the message out
MarkFailed_PlainProgress(job, e, t) ==
    [job EXCEPT !.status = FAILED,
                !.error = Some(e),
                !.progress = "Processing failed",
                !.completed_at = Some(t)]

\* mutant: the except block does not stamp the completion time
MarkFailed_NoTimestamp(job, e, t) ==
    [job EXCEPT !.status = FAILED,
                !.error = Some(e),
                !.progress = "Processing failed: " \o e]

\* mutant: the except block does not record the error
MarkFailed_NoError(job, e, t) ==
    [job EXCEPT !.status = FAILED,
                !.progress = "Processing failed: " \o e,
                !.completed_at = Some(t)]

\* _execute_job, the except block: e is str(exception)
MarkFailed(job, e, t) ==
    [job EXCEPT !.status = FAILED,
                !.error = Some(e),
                !.progress = "Processing failed: " \o e,
                !.completed_at = Some(t)]

\* mutant: the dispatch takes every job type to the executor
KnownJobTypes_All == {req.job_type : req \in Requests}

\* the job types _execute_job dispatches on
KnownJobTypes == {"translation", "questions", "linguistic"}

UnknownJobTypeMsg(job_type) == "Unknown job type: " \o job_type

\* _execute_job after the executor call of a translation job returned
\* translation_result: <<"result", r>> or <<"raise", str(e)>>
TranslationOutcome(job, translation_result) ==
    LET translation_data == Get(translation_result, "translation", <<>>) IN
    IF ~Get(translation_data, "success", FALSE)
    THEN <<"raise", Get(translation_data, "error", "Translation failed")>>
    ELSE <<"result", [type |-> "TranslationResponse",
                      input_text |-> job.text,
                      translations |->
                          [m \in {Get(translation_result, "model", "unknown")} |->
                               translation_data]]>>

\* the same for a questions job
QuestionsOutcome(job, questions_result) ==
    IF ~Get(questions_result, "success", FALSE)
    THEN <<"raise", Get(questions_result, "error", "Question generation failed")>>
    ELSE <<"result", [type |-> "QuestionResponse",
                      input_text |-> job.text,
                      question_count |-> job.question_count,
                      questions |-> IF "questions_list" \in DOMAIN questions_result
                                    THEN Some(questions_result.questions_list)
                                    ELSE None]>>

\* mutant: only the error entry of the dict is looked at
LinguisticOutcome_IgnoresSuccess(job, linguistic_result) ==
    IF Get(linguistic_result, "error", "") # ""
    THEN <<"raise", linguistic_result.error>>
    ELSE <<"result", [k \in DOMAIN linguistic_result \ {"success"} |-> linguistic_result[k]]>>

\* the same for a linguistic job
LinguisticOutcome(job, linguistic_result) ==
    IF Get(linguistic_result, "error", "") # ""
    THEN <<"raise", linguistic_result.error>>
    ELSE IF ~Get(linguistic_result, "success", FALSE)
    THEN <<"raise", "Linguistic analysis returned no success status">>
    ELSE <<"result", [k \in DOMAIN linguistic_result \ {"success"} |-> linguistic_result[k]]>>

\* _execute_job from the executor call to the end of the dispatch: the
\* service call with the connection answer and the backend's replies
JobOutcome(job, connected, r1, r2, reply) ==
    CASE job.job_type = "translation" ->
            TranslationOutcome(job,
                translate(job.text, job.schema_name, connected, r1, r2, reply))
      [] job.job_type = "questions" ->
            QuestionsOutcome(job,
                generate_questions(job.text, job.question_count, connected, reply))
      [] job.job_type = "linguistic" ->
            LinguisticOutcome(job,
                analyze_linguistic(job.full_text, job.selected_text, connected, reply))
      [] OTHER -> <<"raise", UnknownJobTypeMsg(job.job_type)>>

\* The dicts a service call can hand back to _execute_job, whatever the
\* service is: with the success entry true, false or absent, with and
\* without an error entry, and for translate with and without the
\* translation entry.
TranslationDatas ==
    { [success |-> TRUE, model |-> "qwen", translated_text |-> "Hello"],
      [success |-> FALSE, model |-> "qwen", error |-> NoResponseMsg],
      [success |-> FALSE, model |-> "qwen"],
      [model |-> "qwen", error |-> AttributeErrorMsg],
      [model |-> "qwen", translated_text |-> "Hello"] }
TranslateResults ==
    { [input_text |-> "nihao", schema_used |-> "translate", model |-> "qwen",
       translation |-> d] : d \in TranslationDatas }
    \cup { [input_text |-> "nihao", schema_used |-> "translate", model |-> "qwen"] }
FlatResults ==
    { [success |-> TRUE, questions_list |-> <<>>, english_translation |-> "Hello"],
      [success |-> FALSE, error |-> NoResponseMsg],
      [success |-> FALSE],
      [error |-> AttributeErrorMsg],
      [questions_list |-> <<>>, english_translation |-> "Hello"] }
ServiceResults(job_type) ==
    IF job_type = "translation" THEN TranslateResults ELSE FlatResults

\* _execute_job from the return of the executor call to the end of the
\* dispatch, for the dict the service call returned
DispatchOutcome(job, service_result) ==
    CASE job.job_type = "translation" -> TranslationOutcome(job, service_result)
      [] job.job_type = "questions" -> QuestionsOutcome(job, service_result)
      [] job.job_type = "linguistic" -> LinguisticOutcome(job, service_result)
      [] OTHER -> <<"raise", UnknownJobTypeMsg(job.job_type)>>

\* the record _execute_job leaves behind for an outcome
Commit(job, outcome, t) ==
    IF outcome[1] = "result" THEN MarkCompleted(job, outcome[2], t)
    ELSE MarkFailed(job, outcome[2], t)

\* mutant: the age is taken from created_at
ShouldRemove_CreatedAge(job, t, max_age_seconds) ==
    /\ job.status \in {COMPLETED, FAILED}
    /\ t - job.created_at > max_age_seconds

\* mutants: the state is not looked at; the age test is not strict
ShouldRemove_AnyStatus(job, t, max_age_seconds) ==
    t - (IF IsNone(job.completed_at) THEN job.created_at ELSE Val(job.completed_at))
        > max_age_seconds
ShouldRemove_NotStrict(job, t, max_age_seconds) ==
    /\ job.status \in {COMPLETED, FAILED}
    /\ t - Val(job.completed_at) >= max_age_seconds

\* cleanup_old_jobs: whether a record is put on jobs_to_remove
ShouldRemove(job, t, max_age_seconds) ==
    /\ job.status \in {COMPLETED, FAILED}
    /\ t - Val(job.completed_at) > max_age_seconds

\* ------------------------------------------------------- AsyncJobManager
VARIABLES
    jobs,               \* self.jobs: job id -> JobRecord
    processing_queue,   \* self.processing_queue: the ids put and not yet got
    wpc,                \* where the worker task is: "none" (self._worker_task is
                        \* None), "get" (suspended in wait_for(queue.get())),
                        \* "await" (suspended in run_in_executor), "raise" (running
                        \* _execute_job between the marking and the except block)
    cur,                \* the job id _execute_job is working on, if any
    now,                \* datetime.now()
    ollama_connected,   \* OllamaClient.ollama_connected
    submitted,          \* the ids submit_job has returned, in call order
    worker_tasks        \* how many tasks asyncio.create_task has made for
                        \* _process_jobs

vars == <<jobs, processing_queue, wpc, cur, now, ollama_connected, submitted, worker_tasks>>

issued == {submitted[i] : i \in 1..Len(submitted)}

\* the max_age_seconds arguments of the cleanup_old_jobs calls of the model
MaxAges == {-1, 0, MaxTime}

Init ==
    /\ jobs = <<>>
    /\ processing_queue = <<>>
    /\ wpc = "none"
    /\ cur = None
    /\ now = 0
    /\ ollama_connected = None
    /\ submitted = <<>>
    /\ worker_tasks = 0

\* mutant: a request handler runs only while the worker waits on the queue
LoopFree_WorkerIdle == wpc \in {"none", "get"}

\* The event loop runs one task at a time: a request handler runs only
\* while the worker task is suspended (or not created).
LoopFree == wpc # "raise"

\* mutant: the same id on every call
uuid4_Constant(job_id) == job_id = 1

\* uuid.uuid4(): an id no earlier call returned.  Ids are opaque, so the
\* model names them by their order of issue.
uuid4(job_id) == job_id = Len(submitted) + 1

\* mutant: the new id goes to the front of the queue
QueuePut_Front(q, job_id) == <<job_id>> \o q

\* mutant: the id is put twice
QueuePut_Twice(q, job_id) == q \o <<job_id, job_id>>

\* asyncio.Queue, first in first out: put_nowait, and what get returns
QueuePut(q, job_id) == Append(q, job_id)
QueueGet(q) == Head(q)

\* submit_job
submit_job(job_id, req) ==
    /\ LoopFree
    /\ Len(submitted) < MaxJobs
    /\ uuid4(job_id)
    /\ jobs' = (job_id :> NewJob(job_id, req, now)) @@ jobs
    /\ processing_queue' = QueuePut(processing_queue, job_id)
    /\ submitted' = Append(submitted, job_id)
    /\ UNCHANGED <<wpc, cur, now, ollama_connected, worker_tasks>>

\* The request lists of the batch_translate_async calls of the model: up to
\* MaxJobs AsyncTranslationJob items, with two texts and with the schema
\* name given or empty
BatchItems ==
    { [text |-> t, schema_name |-> sn] : t \in {"nihao", "zaijian"}, sn \in {"translate", ""} }
BatchRequests == UNION { [1..n -> BatchItems] : n \in 0..MaxJobs }
BatchQuerySchema == "translate"

\* mutant: the loop puts each new id in front of the queue
BatchStep_Front(st, req, schema_name) ==
    LET job_id == Len(st.submitted) + 1
        call == [text |-> Some(req.text), job_type |-> "translation",
                 schema_name |-> Some(OrStr(Some(req.schema_name), schema_name)),
                 question_count |-> None, full_text |-> None, selected_text |-> None] IN
    [jobs |-> (job_id :> NewJob(job_id, call, now)) @@ st.jobs,
     processing_queue |-> QueuePut_Front(st.processing_queue, job_id),
     submitted |-> Append(st.submitted, job_id),
     job_ids |-> Append(st.job_ids, job_id)]

\* batch_translate_async, one pass of the for loop: the submit_job call for
\* the item req (uuid4 gives the next unused id) and job_ids.append
BatchStep(st, req, schema_name) ==
    LET job_id == Len(st.submitted) + 1
        call == [text |-> Some(req.text), job_type |-> "translation",
                 schema_name |-> Some(OrStr(Some(req.schema_name), schema_name)),
                 question_count |-> None, full_text |-> None, selected_text |-> None] IN
    [jobs |-> (job_id :> NewJob(job_id, call, now)) @@ st.jobs,
     processing_queue |-> QueuePut(st.processing_queue, job_id),
     submitted |-> Append(st.submitted, job_id),
     job_ids |-> Append(st.job_ids, job_id)]

\* batch_translate_async, the for loop over the request list
RECURSIVE BatchLoop(_, _, _)
BatchLoop(st, requests, schema_name) ==
    IF requests = <<>> THEN st
    ELSE BatchLoop(BatchStep(st, Head(requests), schema_name), Tail(requests), schema_name)

\* the manager after the loop, and the job_ids list it collected
BatchResult(requests) ==
    BatchLoop([jobs |-> jobs, processing_queue |-> processing_queue,
               submitted |-> submitted, job_ids |-> <<>>],
              requests, BatchQuerySchema)

\* batch_translate_async: what the route returns
BatchResponse(job_ids) ==
    [total_submitted |-> Len(job_ids), job_ids |-> job_ids]

\* batch_translate_async: no await of the loop suspends, so the loop runs
\* as one step
batch_translate_async(requests) ==
    /\ LoopFree
    /\ Len(submitted) + Len(requests) <= MaxJobs
    /\ jobs' = BatchResult(requests).jobs
    /\ processing_queue' = BatchResult(requests).processing_queue
    /\ submitted' = BatchResult(requests).submitted
    /\ UNCHANGED <<wpc, cur, now, ollama_connected, worker_tasks>>

\* mutant: a finished record is not returned
get_job_status_HidesFinished(job_id) ==
    IF job_id \in DOMAIN jobs /\ jobs[job_id].status \notin Terminal
    THEN Some(jobs[job_id]) ELSE None

\* get_job_status: self.jobs.get(job_id)
get_job_status(job_id) == IF job_id \in DOMAIN jobs THEN Some(jobs[job_id]) ELSE None

\* routes_async.py, the three status routes: HTTP 404 when the manager
\* returns no record, else the AsyncJobStatusResponse built from the record
\* (a timestamp's isoformat text is named by the clock reading it renders)
NotFound == [status_code |-> 404]
StatusResponse(job) ==
    [job_id |-> job.job_id,
     status |-> job.status,
     progress |-> job.progress,
     created_at |-> Some(job.created_at),
     completed_at |-> job.completed_at,
     result |-> IF job.status = COMPLETED THEN job.result ELSE None,
     error |-> IF job.status = FAILED THEN job.error ELSE None]
get_translation_status(job_id) ==
    LET job == get_job_status(job_id) IN
    IF IsNone(job) THEN NotFound ELSE StatusResponse(Val(job))

GetStatus(job_id) ==
    /\ LoopFree
    /\ get_job_status(job_id) \in {None} \cup {Some(jobs[j]) : j \in DOMAIN jobs}
    /\ UNCHANGED vars

\* mutant: start_worker does not look at self._worker_task
WorkerTaskExists_Never == FALSE

\* start_worker: self._worker_task is not None
WorkerTaskExists == wpc # "none"

\* start_worker
start_worker ==
    /\ LoopFree
    /\ IF WorkerTaskExists THEN UNCHANGED vars
       ELSE /\ wpc' = "get"
            /\ worker_tasks' = worker_tasks + 1
            /\ UNCHANGED <<jobs, processing_queue, cur, now, ollama_connected, submitted>>

\* mutant: a job that failed is put back on the queue
QueueAfterJob_Retries(q, job_id, outcome) ==
    IF outcome[1] = "raise" THEN Append(q, job_id) ELSE q

\* the queue once _execute_job has returned: neither the except block nor
\* the loop puts an id back
QueueAfterJob(q, job_id, outcome) == q

\* mutants: the loop ends after a job, or after a job that failed
AfterJob_Stops(outcome) == "dead"
AfterJob_DiesOnFailure(outcome) == IF outcome[1] = "raise" THEN "dead" ELSE "get"

\* _process_jobs: where the loop goes once _execute_job has returned
AfterJob(outcome) == "get"

\* _process_jobs: queue.get() returns an id and _execute_job runs up to its
\* first suspension (the executor call), or up to the raise for a job type
\* it does not know
Dequeue ==
    /\ wpc = "get"
    /\ processing_queue # <<>>
    /\ LET job_id == QueueGet(processing_queue) IN
       /\ processing_queue' = Tail(processing_queue)
       /\ IF job_id \notin DOMAIN jobs
          THEN UNCHANGED <<jobs, wpc, cur>>
          ELSE /\ jobs' = [jobs EXCEPT ![job_id] = MarkProcessing(jobs[job_id], now)]
               /\ cur' = Some(job_id)
               /\ wpc' = IF jobs[job_id].job_type \in KnownJobTypes
                         THEN "await" ELSE "raise"
    /\ UNCHANGED <<now, ollama_connected, submitted, worker_tasks>>

\* mutant: the loop ends when the wait times out
AfterTimeout_Stops == "dead"

\* _process_jobs: `continue` in the handler of asyncio.TimeoutError
AfterTimeout == "get"

\* _process_jobs: wait_for times out and the loop continues.  The wait can
\* also expire when an id has just been put: the cancelled get() has taken
\* nothing from the queue.
IdleTimeout ==
    /\ wpc = "get"
    /\ wpc' = AfterTimeout
    /\ UNCHANGED <<jobs, processing_queue, cur, now, ollama_connected, submitted,
                   worker_tasks>>

\* _execute_job: the executor call returns (the service checked the
\* connection, called the backend and parsed its reply) and the record is
\* completed or failed
\* `up` is the answer of the connection probe (if one is made), r1 and r2
\* the backend's replies to the first-stage calls, reply its final reply
ReturnsWith(up, r1, r2, reply) ==
    /\ wpc = "await"
    /\ LET conn == check_connection(ollama_connected, up)
           job == jobs[Val(cur)]
           outcome == JobOutcome(job, conn[1], r1, r2, reply) IN
       /\ jobs' = [jobs EXCEPT ![Val(cur)] = Commit(job, outcome, now)]
       /\ ollama_connected' = conn[2]
       /\ wpc' = AfterJob(outcome)
       /\ processing_queue' = QueueAfterJob(processing_queue, Val(cur), outcome)
    /\ cur' = None
    /\ UNCHANGED <<now, submitted, worker_tasks>>

\* the answers a connection probe can give now: none is made once the
\* answer is cached
Probes == IF IsNone(ollama_connected) THEN BOOLEAN ELSE {Val(ollama_connected)}

ExecutorReturns ==
    \E up \in Probes, r1 \in Stage1Responses, r2 \in Stage1Responses, reply \in Responses :
        ReturnsWith(up, r1, r2, reply)

\* _execute_job: the raise for an unknown job type reaches the except block
RaiseUnknown ==
    /\ wpc = "raise"
    /\ LET job == jobs[Val(cur)]
           outcome == JobOutcome(job, FALSE, None, None, None) IN
       /\ jobs' = [jobs EXCEPT ![Val(cur)] = Commit(job, outcome, now)]
       /\ wpc' = AfterJob(outcome)
       /\ processing_queue' = QueueAfterJob(processing_queue, Val(cur), outcome)
    /\ cur' = None
    /\ UNCHANGED <<now, ollama_connected, submitted, worker_tasks>>

\* cleanup_old_jobs: self.jobs after the two loops
RemainingJobs(max_age_seconds) ==
    LET jobs_to_remove == {j \in DOMAIN jobs : ShouldRemove(jobs[j], now, max_age_seconds)} IN
    [j \in DOMAIN jobs \ jobs_to_remove |-> jobs[j]]

\* cleanup_old_jobs
cleanup_old_jobs(max_age_seconds) ==
    /\ LoopFree
    /\ jobs' = RemainingJobs(max_age_seconds)
    /\ UNCHANGED <<processing_queue, wpc, cur, now, ollama_connected, submitted, worker_tasks>>

\* the clock advances
Tick ==
    /\ now < MaxTime
    /\ now' = now + 1
    /\ UNCHANGED <<jobs, processing_queue, wpc, cur, ollama_connected, submitted, worker_tasks>>

Next ==
    \/ \E job_id \in JobIds, req \in Requests : submit_job(job_id, req)
    \/ \E job_id \in JobIds : GetStatus(job_id)
    \/ start_worker
    \/ Dequeue
    \/ IdleTimeout
    \/ ExecutorReturns
    \/ RaiseUnknown
    \/ \E max_age_seconds \in MaxAges : cleanup_old_jobs(max_age_seconds)
    \/ Tick

Spec == Init /\ [][Next]_vars

\* The manager at one clock reading: timestamps are data, no step of the
\* manager or of the worker depends on the clock having moved.
LiveNext ==
    \/ \E job_id \in JobIds, req \in Requests : submit_job(job_id, req)
    \/ \E job_id \in JobIds : GetStatus(job_id)
    \/ start_worker
    \/ Dequeue
    \/ IdleTimeout
    \/ ExecutorReturns
    \/ RaiseUnknown
    \/ \E max_age_seconds \in MaxAges : cleanup_old_jobs(max_age_seconds)

\* The worker task is scheduled whenever it can run, and every executor
\* call returns.
LiveSpec ==
    /\ Init /\ [][LiveNext]_vars
    /\ WF_vars(Dequeue)
    /\ WF_vars(ExecutorReturns)
    /\ WF_vars(RaiseUnknown)

\* The manager behind a backend that is up and answers every call with
\* RawHello, taking submit_job calls over SubmitRequests.
StubReturns == ReturnsWith(TRUE, Some(RawHello), Some(RawHello), Some(RawHello))

SubmitNext ==
    \/ \E job_id \in JobIds, req \in SubmitRequests : submit_job(job_id, req)
    \/ start_worker
    \/ Dequeue
    \/ StubReturns

SubmitSpec == Init /\ [][SubmitNext]_vars

\* The manager over a service that can return any of ServiceResults.
ServiceReturns(service_result) ==
    /\ wpc = "await"
    /\ LET job == jobs[Val(cur)]
           outcome == DispatchOutcome(job, service_result) IN
       /\ jobs' = [jobs EXCEPT ![Val(cur)] = Commit(job, outcome, now)]
       /\ wpc' = AfterJob(outcome)
       /\ processing_queue' = QueueAfterJob(processing_queue, Val(cur), outcome)
    /\ cur' = None
    /\ UNCHANGED <<now, ollama_connected, submitted, worker_tasks>>

AnyServiceReturns ==
    /\ wpc = "await"
    /\ \E service_result \in ServiceResults(jobs[Val(cur)].job_type) :
          ServiceReturns(service_result)

DispatchNext ==
    \/ \E job_id \in JobIds, req \in Requests : submit_job(job_id, req)
    \/ start_worker
    \/ Dequeue
    \/ AnyServiceReturns
    \/ RaiseUnknown

DispatchSpec == Init /\ [][DispatchNext]_vars

\* The manager taking batches next to single submit_job calls, behind the
\* backend that answers every call with RawHello.
BatchNext ==
    \/ \E requests \in BatchRequests : batch_translate_async(requests)
    \/ \E job_id \in JobIds, req \in Requests : submit_job(job_id, req)
    \/ start_worker
    \/ Dequeue
    \/ StubReturns
    \/ RaiseUnknown

BatchSpec == Init /\ [][BatchNext]_vars

\* The application of src/api/__init__.py around the manager: the startup
\* event starts the worker, requests are served, and the shutdown event
\* sweeps the store, after which the event loop runs nothing more.
ShutdownMaxAge == 300

Serving == wpc \notin {"none", "stopped"}

startup_event ==
    /\ wpc = "none"
    /\ start_worker

\* mutant: the sweep of the shutdown event runs while requests are served
shutdown_event_WhileServing ==
    /\ LoopFree
    /\ Serving
    /\ jobs' = RemainingJobs(ShutdownMaxAge)
    /\ UNCHANGED <<processing_queue, wpc, cur, now, ollama_connected, submitted, worker_tasks>>

shutdown_event ==
    /\ LoopFree
    /\ Serving
    /\ jobs' = RemainingJobs(ShutdownMaxAge)
    /\ wpc' = "stopped"
    /\ UNCHANGED <<processing_queue, cur, now, ollama_connected, submitted, worker_tasks>>

ServeSubmit ==
    /\ Serving
    /\ \E job_id \in JobIds, req \in Requests : submit_job(job_id, req)

ServeStatus ==
    /\ Serving
    /\ \E job_id \in JobIds : GetStatus(job_id)

\* the clock of the application, read every ShutdownMaxAge + 1 seconds
Wait ==
    /\ Serving
    /\ now < MaxTime * (ShutdownMaxAge + 1)
    /\ now' = now + ShutdownMaxAge + 1
    /\ UNCHANGED <<jobs, processing_queue, wpc, cur, ollama_connected, submitted, worker_tasks>>

AppNext ==
    \/ startup_event
    \/ ServeSubmit
    \/ ServeStatus
    \/ Dequeue
    \/ IdleTimeout
    \/ ExecutorReturns
    \/ RaiseUnknown
    \/ Wait
    \/ shutdown_event

AppSpec == Init /\ [][AppNext]_vars

\* ================================================================ claims
StatusOf(j) == jobs[j].status
Swept == issued \ DOMAIN jobs

\* C1: a record is created Queued under an id never used before, and its
\* state only ever changes from Queued to Running and from Running to
\* Succeeded or Failed; no other change of state occurs.
AllowedStatusSteps ==
    {<<PENDING, PROCESSING>>, <<PROCESSING, COMPLETED>>, <<PROCESSING, FAILED>>}

C1_StateSequence ==
    [][\A j \in JobIds :
          /\ (j \notin DOMAIN jobs /\ j \in DOMAIN jobs')
                => (jobs'[j].status = PENDING /\ j \notin issued)
          /\ (j \in DOMAIN jobs /\ j \in DOMAIN jobs' /\ jobs'[j].status # jobs[j].status)
                => <<jobs[j].status, jobs'[j].status>> \in AllowedStatusSteps]_vars

C1_Witness ==
    \E j \in DOMAIN jobs, k \in DOMAIN jobs :
        /\ StatusOf(j) = COMPLETED /\ ~IsNone(jobs[j].started_at)
        /\ StatusOf(k) = FAILED /\ ~IsNone(jobs[k].started_at)

\* C2: at most one job is Running, and a job is Running or finished only
\* if every job submitted before it is finished (or finished and swept).
C2_Fifo ==
    /\ Cardinality({j \in DOMAIN jobs : StatusOf(j) = PROCESSING}) <= 1
    /\ \A i \in 1..Len(submitted), k \in 1..Len(submitted) :
          (i < k /\ submitted[k] \in DOMAIN jobs /\ StatusOf(submitted[k]) # PENDING)
             => (submitted[i] \in DOMAIN jobs => StatusOf(submitted[i]) \in Terminal)

C2_Witness ==
    /\ Len(submitted) = 2
    /\ submitted[1] \in DOMAIN jobs /\ StatusOf(submitted[1]) \in Terminal
    /\ submitted[2] \in DOMAIN jobs /\ StatusOf(submitted[2]) = PROCESSING

\* C3: in every stored record, result is set exactly when the state is
\* Succeeded and error is set exactly when the state is Failed.
C3_ResultErrorIff ==
    \A j \in DOMAIN jobs :
        /\ ~IsNone(jobs[j].result) <=> StatusOf(j) = COMPLETED
        /\ ~IsNone(jobs[j].error) <=> StatusOf(j) = FAILED

C3_Witness ==
    \E j \in DOMAIN jobs, k \in DOMAIN jobs :
        /\ StatusOf(j) = COMPLETED /\ ~IsNone(jobs[j].result) /\ IsNone(jobs[j].error)
        /\ StatusOf(k) = FAILED /\ ~IsNone(jobs[k].error) /\ IsNone(jobs[k].result)

\* C4: a submit returns an id no earlier submit returned, adds exactly one
\* record, under that id, and a status query right after it finds that
\* record Queued with started, completed, result and error empty.
C4_SubmitFresh ==
    [][\A j \in JobIds :
          (\E req \in Requests : submit_job(j, req))
             => /\ j \notin issued
                /\ j \notin DOMAIN jobs
                /\ DOMAIN jobs' = DOMAIN jobs \cup {j}
                /\ \A k \in DOMAIN jobs : jobs'[k] = jobs[k]
                /\ submitted' = Append(submitted, j)
                /\ ~IsNone(get_job_status(j)')
                /\ LET r == Val(get_job_status(j)') IN
                      /\ r.job_id = j
                      /\ r.status = PENDING
                      /\ IsNone(r.started_at) /\ IsNone(r.completed_at)
                      /\ IsNone(r.result) /\ IsNone(r.error)]_vars

C4_Witness ==
    /\ Len(submitted) = 2
    /\ submitted[1] # submitted[2]
    /\ submitted[1] \in DOMAIN jobs /\ StatusOf(submitted[1]) \in Terminal
    /\ submitted[2] \in DOMAIN jobs /\ StatusOf(submitted[2]) = PENDING
    /\ IsNone(jobs[submitted[2]].started_at)

\* C5: once the worker has been started, every stored job eventually is
\* Succeeded or Failed (the executor calls return: LiveSpec).
C5_EveryJobFinishes ==
    \A j \in JobIds :
        (j \in DOMAIN jobs /\ wpc # "none")
            ~> (j \in DOMAIN jobs /\ StatusOf(j) \in Terminal)

C5_Witness ==
    /\ wpc = "get"
    /\ Len(submitted) = 2
    /\ \A j \in issued : j \in DOMAIN jobs /\ StatusOf(j) \in Terminal
    /\ processing_queue = <<>>

\* C6: when a job fails, its record holds the exception's message and the
\* worker is back waiting on the queue; and whenever some job has failed,
\* every job still Queued is taken up by the worker later.
ExceptionMessages ==
    {NotAvailableMsg, NoResponseMsg, ParseErrorMsg, AttributeErrorMsg,
     "Linguistic analysis returned no success status",
     "Translation failed", "Question generation failed"}
        \cup {UnknownJobTypeMsg(req.job_type) : req \in Requests}

C6_WorkerSurvivesFailure ==
    /\ [][\A j \in DOMAIN jobs :
              (StatusOf(j) = PROCESSING /\ j \in DOMAIN jobs' /\ jobs'[j].status = FAILED)
                 => /\ wpc' = "get"
                    /\ ~IsNone(jobs'[j].error)
                    /\ Val(jobs'[j].error) \in ExceptionMessages
                    /\ jobs'[j].progress = "Processing failed: " \o Val(jobs'[j].error)]_vars
    /\ \A j \in JobIds :
          (/\ j \in DOMAIN jobs /\ StatusOf(j) = PENDING /\ wpc # "none"
           /\ \E k \in DOMAIN jobs : StatusOf(k) = FAILED)
             ~> (j \in DOMAIN jobs /\ StatusOf(j) # PENDING)

C6_Witness ==
    /\ Len(submitted) = 2
    /\ submitted[1] \in DOMAIN jobs /\ StatusOf(submitted[1]) = FAILED
    /\ submitted[2] \in DOMAIN jobs /\ StatusOf(submitted[2]) = COMPLETED
    /\ Val(jobs[submitted[2]].started_at) >= Val(jobs[submitted[1]].completed_at)

\* C7 (as claimed): whenever the backend's final reply to a connected job
\* of any kind is text that is no JSON, the job ends Failed with the
\* parse-failure message and the reply text can be read from its record.
RecordHoldsText(job, text) ==
    \/ /\ ~IsNone(job.result)
       /\ \/ Get(Val(job.result), "raw_response", "") = text
          \/ /\ "translations" \in DOMAIN Val(job.result)
             /\ \E m \in DOMAIN Val(job.result).translations :
                   Get(Val(job.result).translations[m], "raw_response", "") = text
    \/ /\ ~IsNone(job.error)
       /\ Val(job.error) = text

C7_ParseFailureFails ==
    [][(wpc = "await" /\ wpc' # "await")
          => \A up \in Probes, r1 \in Stage1Responses, r2 \in Stage1Responses :
                (/\ check_connection(ollama_connected, up)[1]
                 /\ ReturnsWith(up, r1, r2, Some(RawGarbage)))
                   => /\ jobs'[Val(cur)].status = FAILED
                      /\ jobs'[Val(cur)].error = Some(ParseErrorMsg)
                      /\ RecordHoldsText(jobs'[Val(cur)], RawGarbage)]_vars

\* C8: a translation job whose connection check fails, or whose final
\* backend call gives no response, ends Failed with the not-available or
\* the no-response message, with no result, and is not put back on the queue.
C8_NoResponseFails ==
    [][(wpc = "await" /\ wpc' # "await" /\ jobs[Val(cur)].job_type = "translation")
          => \A up \in Probes, r1 \in Stage1Responses, r2 \in Stage1Responses,
                reply \in Responses :
                (/\ (~check_connection(ollama_connected, up)[1]
                       \/ reply \in {None, Some("")})
                 /\ ReturnsWith(up, r1, r2, reply))
                   => /\ jobs'[Val(cur)].status = FAILED
                      /\ jobs'[Val(cur)].error \in {Some(NotAvailableMsg), Some(NoResponseMsg)}
                      /\ IsNone(jobs'[Val(cur)].result)
                      /\ \A i \in 1..Len(processing_queue') : processing_queue'[i] # Val(cur)
                      /\ wpc' = "get"]_vars

C8_Witness ==
    \E j \in DOMAIN jobs, k \in DOMAIN jobs :
        /\ jobs[j].job_type = "translation" /\ jobs[k].job_type = "translation"
        /\ StatusOf(j) = FAILED /\ jobs[j].error = Some(NoResponseMsg)
        /\ StatusOf(k) = FAILED /\ jobs[k].error = Some(NoResponseMsg)
        /\ j # k /\ ollama_connected = Some(TRUE)

\* C9: a record leaves the store only in a sweep, and only when its state
\* is Succeeded or Failed.
C9_OnlySweepRemoves ==
    [][\A j \in DOMAIN jobs :
          j \notin DOMAIN jobs'
             => /\ StatusOf(j) \in Terminal
                /\ \E max_age_seconds \in MaxAges : cleanup_old_jobs(max_age_seconds)]_vars

C9_Witness ==
    /\ Swept # {}
    /\ \E k \in DOMAIN jobs : StatusOf(k) = PROCESSING /\ jobs[k].created_at < now

\* C10 (as claimed): a sweep with max_age 0 removes every record that is
\* Succeeded or Failed, also at the clock reading of its completion.
C10_SweepZeroRemovesAll ==
    [][cleanup_old_jobs(0)
          => \A j \in DOMAIN jobs : StatusOf(j) \in Terminal => j \notin DOMAIN jobs']_vars

\* C10 (amended): a sweep with max_age 0 removes a finished record exactly
\* when the clock has moved past its completed timestamp; a record
\* completed at the current clock reading is kept.
C10_SweepZeroRemovesOlder ==
    [][cleanup_old_jobs(0)
          => \A j \in DOMAIN jobs :
                StatusOf(j) \in Terminal
                   => (j \notin DOMAIN jobs' <=> now > Val(jobs[j].completed_at))]_vars

C10_Witness ==
    /\ Swept # {}
    /\ \E k \in DOMAIN jobs : StatusOf(k) \in Terminal /\ jobs[k].completed_at = Some(now)
    /\ now > 0

\* C11: a status query answers not-found exactly for the ids that are no key
\* of the store, which covers every id submit never returned and every
\* swept id; for an id in the store the manager returns its record and the
\* route a response for that record.
C11_NotFoundIffAbsent ==
    \A j \in JobIds :
        /\ get_translation_status(j) = NotFound <=> j \notin DOMAIN jobs
        /\ IsNone(get_job_status(j)) <=> j \notin DOMAIN jobs
        /\ j \notin issued => get_translation_status(j) = NotFound
        /\ j \in Swept => get_translation_status(j) = NotFound
        /\ j \in DOMAIN jobs
              => /\ get_job_status(j) = Some(jobs[j])
                 /\ get_translation_status(j) = StatusResponse(jobs[j])
                 /\ get_translation_status(j).job_id = j

C11_Witness ==
    /\ Swept # {}
    /\ \E k \in DOMAIN jobs : StatusOf(k) = PENDING
    /\ \E j \in JobIds : j \notin issued
    /\ LoopFree

\* C12: however often start_worker is called there is exactly one worker
\* task once it was called and none before; a call made when the task
\* exists changes nothing, and no call changes a job record or the queue.
C12_StartIdempotent ==
    /\ [](worker_tasks <= 1 /\ (wpc # "none" <=> worker_tasks = 1))
    /\ [][/\ worker_tasks >= 1 => worker_tasks' = worker_tasks
          /\ (start_worker /\ worker_tasks >= 1) => UNCHANGED vars
          /\ start_worker => (jobs' = jobs /\ processing_queue' = processing_queue)]_vars

C12_Witness ==
    /\ worker_tasks = 1
    /\ wpc = "await"
    /\ processing_queue # <<>>
    /\ ENABLED start_worker

\* C13: in every stored record started_at is None exactly when the state
\* is Queued, and completed_at is None exactly when the state is Queued or
\* Running: both the Succeeded and the Failed outcome stamp completed_at.
C13_TimestampsMatchState ==
    \A j \in DOMAIN jobs :
        /\ IsNone(jobs[j].started_at) <=> StatusOf(j) = PENDING
        /\ IsNone(jobs[j].completed_at) <=> StatusOf(j) \in {PENDING, PROCESSING}

C13_Witness ==
    \E j \in DOMAIN jobs, k \in DOMAIN jobs :
        /\ StatusOf(j) = FAILED /\ jobs[j].completed_at = Some(now)
        /\ StatusOf(k) = PROCESSING /\ jobs[k].started_at = Some(now)
        /\ IsNone(jobs[k].completed_at)
        /\ now > 0

\* C14: whenever a request handler can run (the worker task is suspended
\* or not created), the status response of every stored job is whole: a
\* Succeeded response carries the result and a completed timestamp, a
\* Failed response the error and a completed timestamp, and a Queued or
\* Running response neither result nor error.
C14_NoPartialRead ==
    LoopFree =>
        \A j \in DOMAIN jobs :
            LET response == get_translation_status(j) IN
            /\ response.status = COMPLETED
                  => ~IsNone(response.result) /\ ~IsNone(response.completed_at)
            /\ response.status = FAILED
                  => ~IsNone(response.error) /\ ~IsNone(response.completed_at)
            /\ response.status \in {PENDING, PROCESSING}
                  => IsNone(response.result) /\ IsNone(response.error)

C14_Witness ==
    /\ wpc = "await"
    /\ \E j \in DOMAIN jobs, k \in DOMAIN jobs :
          /\ get_translation_status(j).status = COMPLETED
          /\ ~IsNone(get_translation_status(j).result)
          /\ get_translation_status(k).status = PROCESSING
          /\ IsNone(get_translation_status(k).result)

\* C15 (as claimed): a questions job executes with its submitted
\* question_count clamped to [1,20]: above 20 with 20, below 1 (0 and
\* negatives included) with 1, inside the range unchanged.  The count a
\* record executes with is the one generate_questions reports for the
\* record's question_count, which no step changes after the submit.
ClampedTo1And20(q) == IF q > 20 THEN 20 ELSE IF q < 1 THEN 1 ELSE q
EffectiveQuestionCount(job) ==
    generate_questions(job.text, job.question_count, TRUE, Some(RawHello)).question_count

C15_CountClamped ==
    [][/\ \A j \in JobIds, req \in SubmitRequests :
             (/\ submit_job(j, req)
              /\ req.job_type = "questions"
              /\ ~IsNone(req.question_count))
                => EffectiveQuestionCount(jobs'[j]) = ClampedTo1And20(Val(req.question_count))
       /\ \A j \in DOMAIN jobs :
             j \in DOMAIN jobs' => jobs'[j].question_count = jobs[j].question_count]_vars

\* C16 (as claimed): a translation job for the text with schema
\* "translate", served by a backend that answers every call with
\* {"translated_text": "Hello"}, ends Succeeded and the field
\* translated_text of its result is "Hello".
IsHelloJob(job) ==
    job.job_type = "translation" /\ job.text = "nihao" /\ job.schema_name = "translate"

C16_ResultTranslatedText ==
    [][\A j \in DOMAIN jobs :
          (StubReturns /\ cur = Some(j) /\ IsHelloJob(jobs[j]))
             => /\ jobs'[j].status = COMPLETED
                /\ Get(Val(jobs'[j].result), "translated_text", "") = "Hello"]_vars

\* C16 (amended): such a job ends Succeeded and "Hello" is the
\* translated_text of the entry for the model "qwen" in the translations
\* of its result.
C16_ResultQwenTranslatedText ==
    [][\A j \in DOMAIN jobs :
          (StubReturns /\ cur = Some(j) /\ IsHelloJob(jobs[j]))
             => /\ jobs'[j].status = COMPLETED
                /\ Val(jobs'[j].result).input_text = "nihao"
                /\ "qwen" \in DOMAIN Val(jobs'[j].result).translations
                /\ Val(jobs'[j].result).translations["qwen"].translated_text = "Hello"]_vars

C16_Witness ==
    \E j \in DOMAIN jobs :
        /\ IsHelloJob(jobs[j])
        /\ StatusOf(j) = COMPLETED
        /\ Val(jobs[j].result).translations["qwen"].translated_text = "Hello"
        /\ ollama_connected = Some(TRUE)

\* C17: a job of a kind other than translation, questions and linguistic
\* is taken from the queue and marked Running, then ends Failed with the
\* error that names its kind; the worker never waits on the executor for
\* it, makes no connection check, is back on the queue afterwards and
\* takes up every job that is still Queued.
IsUnknownKind(job) == job.job_type \notin {"translation", "questions", "linguistic"}

C17_UnknownKindFails ==
    /\ [][\A j \in DOMAIN jobs :
              IsUnknownKind(jobs[j]) =>
                 /\ (StatusOf(j) = PENDING /\ j \in DOMAIN jobs' /\ jobs'[j].status # PENDING)
                       => /\ processing_queue # <<>> /\ Head(processing_queue) = j
                          /\ jobs'[j].status = PROCESSING
                          /\ wpc = "get" /\ wpc' = "raise"
                 /\ StatusOf(j) = PROCESSING
                       => /\ wpc = "raise"
                          /\ j \in DOMAIN jobs'
                          /\ jobs'[j].status = FAILED
                          /\ jobs'[j].error = Some("Unknown job type: " \o jobs[j].job_type)
                          /\ IsNone(jobs'[j].result)
                          /\ ollama_connected' = ollama_connected
                          /\ wpc' = "get"]_vars
    /\ \A j \in JobIds :
          (j \in DOMAIN jobs /\ IsUnknownKind(jobs[j]) /\ wpc # "none")
             ~> (j \in DOMAIN jobs /\ StatusOf(j) = FAILED)
    /\ \A k \in JobIds :
          (wpc = "raise" /\ k \in DOMAIN jobs /\ StatusOf(k) = PENDING)
             ~> (k \in DOMAIN jobs /\ StatusOf(k) # PENDING)

C17_Witness ==
    /\ Len(submitted) = 2
    /\ submitted[1] \in DOMAIN jobs /\ submitted[2] \in DOMAIN jobs
    /\ IsUnknownKind(jobs[submitted[1]])
    /\ jobs[submitted[1]].error = Some("Unknown job type: summary")
    /\ StatusOf(submitted[2]) = PROCESSING
    /\ ollama_connected = None

\* C18: the queue holds no id twice, and every id in it is the key of a
\* stored record in state Queued; so the id the worker takes next is
\* always found in the store.
C18_QueueWellFormed ==
    /\ \A i \in 1..Len(processing_queue), k \in 1..Len(processing_queue) :
          i # k => processing_queue[i] # processing_queue[k]
    /\ \A i \in 1..Len(processing_queue) :
          /\ processing_queue[i] \in DOMAIN jobs
          /\ StatusOf(processing_queue[i]) = PENDING
    /\ processing_queue # <<>> => QueueGet(processing_queue) \in DOMAIN jobs

C18_Witness ==
    /\ Swept # {}
    /\ wpc = "get"
    /\ Len(processing_queue) = 1
    /\ StatusOf(processing_queue[1]) = PENDING

\* C19 (as claimed): the record submit_job stores holds in text,
\* schema_name, question_count, full_text and selected_text exactly the
\* arguments of the call, whatever they are (absent, empty, 0 included).
C19_PayloadVerbatim ==
    [][\A j \in JobIds, req \in SubmitRequests :
          submit_job(j, req)
             => /\ Some(jobs'[j].text) = req.text
                /\ Some(jobs'[j].schema_name) = req.schema_name
                /\ Some(jobs'[j].question_count) = req.question_count
                /\ jobs'[j].full_text = req.full_text
                /\ jobs'[j].selected_text = req.selected_text]_vars

\* C20: submit_job stores the Queued record, puts its id on the queue and
\* returns the id in one step in which the worker does not move; a record
\* exists, and so is Running or finished, only under an id that was
\* returned; and submit_job can be called while a job is Running, the
\* worker waiting on the executor.
C20_SubmitAtomic ==
    /\ [](\A j \in DOMAIN jobs : j \in issued)
    /\ []((wpc = "await" /\ Len(submitted) < MaxJobs)
            => ENABLED (\E job_id \in JobIds, req \in Requests : submit_job(job_id, req)))
    /\ [][\A j \in JobIds :
              (\E req \in Requests : submit_job(j, req))
                 => /\ jobs'[j].status = PENDING
                    /\ processing_queue' = Append(processing_queue, j)
                    /\ submitted' = Append(submitted, j)
                    /\ wpc' = wpc /\ cur' = cur
                    /\ ollama_connected' = ollama_connected
                    /\ \A k \in DOMAIN jobs : jobs'[k] = jobs[k]]_vars

C20_Witness ==
    /\ wpc = "await"
    /\ Len(submitted) = 2
    /\ StatusOf(submitted[1]) = PROCESSING
    /\ StatusOf(submitted[2]) = PENDING
    /\ processing_queue = <<submitted[2]>>
    /\ jobs[submitted[2]].created_at > Val(jobs[submitted[1]].started_at)

\* C21: for every job kind, when the dict the service returns has its
\* success entry false or absent, the job ends Failed, never Succeeded,
\* and its error is the error entry of the dict, or the generic failure
\* string of the kind when the dict has no error entry.
SuccessIndicator(job_type, d) ==
    IF job_type = "translation"
    THEN Get(Get(d, "translation", <<>>), "success", FALSE)
    ELSE Get(d, "success", FALSE)
EmbeddedError(job_type, d) ==
    IF job_type = "translation"
    THEN Get(Get(d, "translation", <<>>), "error", "")
    ELSE Get(d, "error", "")
GenericFailure(job_type) ==
    CASE job_type = "translation" -> "Translation failed"
      [] job_type = "questions" -> "Question generation failed"
      [] OTHER -> "Linguistic analysis returned no success status"

OverAge(j, max_age_seconds) ==
    /\ StatusOf(j) \in Terminal
    /\ now - Val(jobs[j].completed_at) > max_age_seconds

C22_SweepExact ==
    /\ [][\A max_age_seconds \in MaxAges :
              cleanup_old_jobs(max_age_seconds)
                 => /\ DOMAIN jobs' = {j \in DOMAIN jobs : ~OverAge(j, max_age_seconds)}
                    /\ \A j \in DOMAIN jobs :
                          (StatusOf(j) \in Terminal
                             /\ now - Val(jobs[j].completed_at) = max_age_seconds)
                                => j \in DOMAIN jobs'
                    /\ \A j \in DOMAIN jobs' : jobs'[j] = jobs[j]
                    /\ processing_queue' = processing_queue
                    /\ UNCHANGED <<wpc, cur, now, ollama_connected, submitted, worker_tasks>>]_vars
    /\ [](\A max_age_seconds \in MaxAges :
              (LoopFree /\ \E j \in DOMAIN jobs : OverAge(j, max_age_seconds))
                 => ENABLED <<cleanup_old_jobs(max_age_seconds)>>_vars)

C22_Witness ==
    /\ Swept # {}
    /\ \E k \in DOMAIN jobs :
          /\ StatusOf(k) \in Terminal
          /\ now - Val(jobs[k].completed_at) = MaxTime
    /\ processing_queue = <<>>

\* C23: executing a job changes the record of that job only, and in it
\* only status, progress, started_at, completed_at, result and error:
\* job_id, job_type, the input payload and created_at of every stored
\* record stay what submit_job made them.
C23_ExecutionFrame ==
    [][\A j \in DOMAIN jobs :
          j \in DOMAIN jobs'
             => /\ jobs'[j].job_id = jobs[j].job_id
                /\ jobs'[j].job_type = jobs[j].job_type
                /\ jobs'[j].text = jobs[j].text
                /\ jobs'[j].schema_name = jobs[j].schema_name
                /\ jobs'[j].question_count = jobs[j].question_count
                /\ jobs'[j].full_text = jobs[j].full_text
                /\ jobs'[j].selected_text = jobs[j].selected_text
                /\ jobs'[j].created_at = jobs[j].created_at
                /\ jobs'[j] # jobs[j]
                      => \/ wpc = "get" /\ processing_queue # <<>>
                                        /\ Head(processing_queue) = j
                         \/ cur = Some(j)]_vars

C23_Witness ==
    \E j \in DOMAIN jobs, k \in DOMAIN jobs :
        /\ StatusOf(j) = COMPLETED /\ jobs[j].created_at = 0
        /\ Val(jobs[j].completed_at) > 0
        /\ StatusOf(k) = PENDING /\ jobs[k].created_at = 0

\* C24: a record that is Succeeded or Failed is never changed again, it
\* can only leave the store; its id is not on the queue and is not the job
\* the worker executes, so a finished job is not executed a second time.
C24_TerminalFrozen ==
    /\ [][\A j \in DOMAIN jobs :
              (StatusOf(j) \in Terminal /\ j \in DOMAIN jobs') => jobs'[j] = jobs[j]]_vars
    /\ [](\A j \in DOMAIN jobs :
              StatusOf(j) \in Terminal
                 => /\ cur # Some(j)
                    /\ \A i \in 1..Len(processing_queue) : processing_queue[i] # j)

C24_Witness ==
    /\ wpc = "await"
    /\ \E j \in DOMAIN jobs :
          /\ StatusOf(j) = FAILED
          /\ Val(jobs[j].completed_at) < now
          /\ cur # Some(j)

\* C25: the timeout of the worker's wait on the queue loses no work: the
\* worker task never ends and a timeout changes nothing; an id leaves the
\* queue only from its head, in the step that marks its Queued record
\* Running, and never comes back; and with the worker started every id on
\* the queue is taken off it.
InQueue(j) == \E i \in 1..Len(processing_queue) : processing_queue[i] = j

C25_TimeoutLosesNothing ==
    /\ [](wpc \in {"none", "get", "await", "raise"})
    /\ [][/\ IdleTimeout => UNCHANGED vars
          /\ \A j \in JobIds :
                /\ (InQueue(j) /\ ~InQueue(j)')
                      => /\ Head(processing_queue) = j
                         /\ StatusOf(j) = PENDING
                         /\ jobs'[j].status = PROCESSING
                /\ (j \in issued /\ ~InQueue(j)) => ~InQueue(j)']_vars
    /\ \A j \in JobIds : (InQueue(j) /\ wpc # "none") ~> ~InQueue(j)

C25_Witness ==
    /\ ENABLED IdleTimeout
    /\ Len(processing_queue) = 1
    /\ \E j \in DOMAIN jobs : StatusOf(j) \in Terminal
    /\ Swept = {}

\* C26: a batch of N translation requests adds exactly N records, all
\* Queued, one per request and in the order of the list, and puts their
\* ids on the end of the queue in that order, next to each other; the
\* response lists these N ids in the same order with total_submitted = N;
\* nothing else changes in the step.
C26_BatchInOrder ==
    [][\A requests \in BatchRequests :
          batch_translate_async(requests)
             => LET N == Len(requests)
                    response == BatchResponse(BatchResult(requests).job_ids) IN
                /\ response.total_submitted = N
                /\ Len(response.job_ids) = N
                /\ Cardinality(DOMAIN jobs' \ DOMAIN jobs) = N
                /\ \A i \in 1..N :
                      /\ response.job_ids[i] \in DOMAIN jobs' \ DOMAIN jobs
                      /\ jobs'[response.job_ids[i]].status = PENDING
                      /\ jobs'[response.job_ids[i]].job_type = "translation"
                      /\ jobs'[response.job_ids[i]].text = requests[i].text
                /\ processing_queue' = processing_queue \o response.job_ids
                /\ submitted' = submitted \o response.job_ids
                /\ \A k \in DOMAIN jobs : jobs'[k] = jobs[k]
                /\ wpc' = wpc /\ cur' = cur]_vars

C26_Witness ==
    /\ Len(submitted) = 2
    /\ submitted[1] \in DOMAIN jobs /\ submitted[2] \in DOMAIN jobs
    /\ jobs[submitted[1]].text = "zaijian" /\ jobs[submitted[2]].text = "nihao"
    /\ StatusOf(submitted[1]) = COMPLETED
    /\ StatusOf(submitted[2]) = PROCESSING

\* C27: the answer of the first connection check is kept for good.  Once
\* it is cached no check probes the backend, whatever the backend would
\* answer now; with a failed first check every later translation,
\* questions and linguistic job ends Failed with the not-available
\* message, whatever the backend would reply to a request; with a
\* successful first check the cached answer stays.
C27_ConnectionCached ==
    /\ [][ollama_connected # None => ollama_connected' = ollama_connected]_vars
    /\ [](ollama_connected # None
            => \A up \in BOOLEAN :
                  check_connection(ollama_connected, up)
                     = <<Val(ollama_connected), ollama_connected>>)
    /\ [][(wpc = "await" /\ wpc' # "await" /\ ollama_connected = Some(FALSE))
            => /\ jobs'[Val(cur)].status = FAILED
               /\ jobs'[Val(cur)].error = Some(NotAvailableMsg)
               /\ \A up \in BOOLEAN, r1 \in Responses, r2 \in Responses, reply \in Responses :
                     JobOutcome(jobs[Val(cur)], check_connection(ollama_connected, up)[1],
                                r1, r2, reply) = <<"raise", NotAvailableMsg>>]_vars

C27_Witness ==
    /\ ollama_connected = Some(FALSE)
    /\ \E j \in DOMAIN jobs, k \in DOMAIN jobs :
          /\ jobs[j].job_type = "translation" /\ jobs[k].job_type = "questions"
          /\ jobs[j].error = Some(NotAvailableMsg)
          /\ jobs[k].error = Some(NotAvailableMsg)
          /\ Val(jobs[j].completed_at) < Val(jobs[k].completed_at)

\* C28: in the application the sweep runs in the shutdown event only, with
\* max_age 300: while requests are served no record leaves the store, the
\* store holds one record for every submission made, and the status of an
\* issued id is never not-found; a record leaves the store in the
\* shutdown event only.
C28_NoSweepWhileServing ==
    /\ [](wpc # "stopped"
            => /\ DOMAIN jobs = issued
               /\ Cardinality(DOMAIN jobs) = Len(submitted)
               /\ \A j \in issued : get_translation_status(j) # NotFound)
    /\ [][/\ wpc' # "stopped" => \A j \in DOMAIN jobs : j \in DOMAIN jobs'
          /\ (\E j \in DOMAIN jobs : j \notin DOMAIN jobs')
                => /\ shutdown_event
                   /\ \A j \in DOMAIN jobs :
                         j \notin DOMAIN jobs'
                            => now - Val(jobs[j].completed_at) > ShutdownMaxAge]_vars

C28_Witness ==
    /\ wpc = "stopped"
    /\ Len(submitted) = 2
    /\ Cardinality(Swept) = 1
    /\ \E k \in DOMAIN jobs : StatusOf(k) \in Terminal

\* C29: the progress note of every stored record is the one of its state:
\* "Queued for processing", "Processing in progress...", "Processing
\* completed", or "Processing failed: " followed by the record's error.
C29_ProgressOfState ==
    \A j \in DOMAIN jobs :
        jobs[j].progress =
            CASE StatusOf(j) = PENDING -> "Queued for processing"
              [] StatusOf(j) = PROCESSING -> "Processing in progress..."
              [] StatusOf(j) = COMPLETED -> "Processing completed"
              [] StatusOf(j) = FAILED -> "Processing failed: " \o Val(jobs[j].error)

C29_Witness ==
    \E j \in DOMAIN jobs, k \in DOMAIN jobs :
        /\ jobs[j].progress = "Processing failed: " \o NoResponseMsg
        /\ jobs[k].progress = "Queued for processing"

====
